---- MODULE Spec2Model ----
(***************************************************************************)
(* md-converter: the HTML tree rewriter of src/html_filter.py              *)
(* (filter_html) as a state machine over a BeautifulSoup tree, and the     *)
(* batch conversion of src/file_processor.py over a directory of files.    *)
(*                                                                         *)
(* The tree is a heap of nodes with identity: the passes of filter_html    *)
(* iterate over lists that find_all computed before the loop, so a node    *)
(* that an earlier iteration detached or decomposed is still visited.      *)
(* Node 1 is the BeautifulSoup object.  Text is a sequence of characters.  *)
(*                                                                         *)
(*   heap      the nodes: name, attributes, contents, parent               *)
(*   pc        "parse", the pass "p1".."p6", "done" or "raised"            *)
(*   todo      the list the current loop iterates over                     *)
(*   stack     the parser's open elements                                  *)
(*   alphabet  the vocabulary the input is drawn from                      *)
(*   src       the parsed input tree of the current call                   *)
(*   before    the heap before the latest loop iteration                   *)
(*   last      the latest loop iteration: pass, node and branch taken      *)
(*   err       an exception left filter_html                               *)
(*   run, out1 the call number and the first call's returned string        *)
(*                                                                         *)
(* The batch conversion (batch_convert_directory) has its own variables:   *)
(*                                                                         *)
(*   input_dir, output_dir   what stands at the two paths                  *)
(*   inputs, outdir          the .md files; the files of the output dir    *)
(*   md_files, index         the globbed list and the loop's position      *)
(*   successful, failed      the two counters                              *)
(*   md_content, html_content  the locals of process_single_file           *)
(*   bpc                     the position in the batch                     *)
(*   walk, processed_files   the loop of force_utf8_entire_directory       *)
(*   attempted, results      the files passed to process_single_file and   *)
(*                           what it returned, in order                    *)
(*   out_pre, out0           the output dir's files before the latest      *)
(*                           process_single_file call; before the batch    *)
(*   written, sanitized      the files opened for writing; the directory   *)
(*                           sanitization has started                      *)
(***************************************************************************)
EXTENDS Integers, Sequences, FiniteSets, TLC

VARIABLES heap, pc, todo, stack, alphabet, src, before, last, err, run, out1

VARIABLES input_dir, output_dir, inputs, outdir, md_files, index, successful,
          failed, md_content, html_content, bpc, walk, processed_files,
          attempted, results, out_pre, out0, written, sanitized

filter == <<heap, pc, todo, stack, alphabet, src, before, last, err, run, out1>>

batch == <<input_dir, output_dir, inputs, outdir, md_files, index, successful,
           failed, md_content, html_content, bpc, walk, processed_files,
           attempted, results, out_pre, out0, written, sanitized>>

vars == <<filter, batch>>

----------------------------------------------------------------------------
(* Bounds of the model: the node budget of the parsed input per alphabet.  *)

MaxNodesWide == 2
MaxNodesList == 4
MaxNodesPara == 5
MaxNodesEmph == 3
MaxNodesTable == 4
MaxNodesGeneric == 4

\* The number of .md files the input directory may hold.
MaxFiles == 2

----------------------------------------------------------------------------
(* Tag policy, src/html_filter.py lines 10-42.                             *)

ALLOWED_NAMES ==
  {"h2", "h3", "p", "strong", "em", "quote", "table", "thead", "tbody",
   "tr", "th", "td"}

ALLOWED_TAGS(name) ==
  CASE name = "quote" -> {"cite", "author"}
    [] name = "table" -> {"border", "cellpadding", "cellspacing"}
    [] OTHER -> {}

REPLACED_NAMES ==
  {"h1", "h4", "h5", "h6", "ul", "ol", "li", "blockquote", "code", "pre",
   "span", "div", "a", "img", "br"}

TAG_REPLACEMENTS(name) ==
  CASE name = "h1" -> "h2"
    [] name \in {"h4", "h5"} -> "h3"
    [] name = "blockquote" -> "quote"
    [] name \in {"code", "a"} -> "em"
    [] OTHER -> "p"

----------------------------------------------------------------------------
(* Strings: str.strip, ' '.join(s.split()), startswith, endswith, slices.  *)

IsSpace(c) == c = " "

RECURSIVE lstrip(_)
lstrip(s) == IF s # <<>> /\ IsSpace(Head(s)) THEN lstrip(Tail(s)) ELSE s

RECURSIVE rstrip(_)
rstrip(s) ==
  IF s # <<>> /\ IsSpace(s[Len(s)]) THEN rstrip(SubSeq(s, 1, Len(s) - 1)) ELSE s

strip(s) == rstrip(lstrip(s))

RECURSIVE squeeze(_)
squeeze(s) ==
  IF Len(s) < 2 THEN s
  ELSE IF IsSpace(s[1]) /\ IsSpace(s[2]) THEN squeeze(Tail(s))
  ELSE <<Head(s)>> \o squeeze(Tail(s))

\* ' '.join(text.split())
join_split(s) == squeeze(strip(s))

startswith(s, pre) == Len(s) >= Len(pre) /\ SubSeq(s, 1, Len(pre)) = pre

endswith(s, suf) ==
  Len(s) >= Len(suf) /\ SubSeq(s, Len(s) - Len(suf) + 1, Len(s)) = suf

\* text[n:-n]
slice(s, n) == SubSeq(s, n + 1, Len(s) - n)

----------------------------------------------------------------------------
(* The bs4 tree operations filter_html calls.                              *)

Soup == 1

Node(kind, name, attrs, text) ==
  [kind |-> kind, name |-> name, attrs |-> attrs, contents |-> <<>>,
   parent |-> 0, text |-> text, dec |-> FALSE]

IsTag(h, x) == h[x].kind = "tag"

Remove(seq, x) == SelectSeq(seq, LAMBDA y : y # x)

IndexOf(seq, x) == CHOOSE i \in 1..Len(seq) : seq[i] = x

InsertSeq(seq, pos, x) ==
  SubSeq(seq, 1, pos) \o <<x>> \o SubSeq(seq, pos + 1, Len(seq))

new_tag(h, name) == Append(h, Node("tag", name, {}, <<>>))

new_string(h, text) == Append(h, Node("text", "", {}, text))

extract(h, x) ==
  IF h[x].parent = 0 THEN h
  ELSE [h EXCEPT ![h[x].parent].contents = Remove(@, x), ![x].parent = 0]

\* Tag.insert(position, child): the child leaves its old place first.
insert(h, t, pos, x) ==
  LET p == IF h[x].parent = t /\ IndexOf(h[t].contents, x) - 1 < pos
           THEN pos - 1 ELSE pos
      g == extract(h, x)
  IN  [g EXCEPT ![t].contents = InsertSeq(@, p, x), ![x].parent = t]

append(h, t, x) == insert(h, t, Len(h[t].contents), x)

\* PageElement.insert_after raises ValueError on an element with no parent.
insert_after_raises(h, x) == h[x].parent = 0

insert_after(h, x, new) ==
  LET g == extract(h, new)
      p == g[x].parent
  IN  insert(g, p, IndexOf(g[p].contents, x), new)

\* PageElement.replace_with raises ValueError on an element with no parent.
replace_with_raises(h, x) == h[x].parent = 0

replace_with(h, x, new) ==
  LET p == h[x].parent
      i == IndexOf(h[p].contents, x)
      g == extract(extract(h, new), x)
  IN  insert(g, p, i - 1, new)

RECURSIVE descendants(_, _)
RECURSIVE descendants_of(_, _)
descendants_of(h, cs) ==
  IF cs = <<>> THEN <<>>
  ELSE <<Head(cs)>> \o descendants(h, Head(cs)) \o descendants_of(h, Tail(cs))

descendants(h, x) == descendants_of(h, h[x].contents)

find_all(h, x, names) ==
  SelectSeq(descendants(h, x), LAMBDA y : IsTag(h, y) /\ h[y].name \in names)

find_all_tags(h, x) == SelectSeq(descendants(h, x), LAMBDA y : IsTag(h, y))

children(h, x, names) ==
  SelectSeq(h[x].contents, LAMBDA y : IsTag(h, y) /\ h[y].name \in names)

children_tags(h, x) == SelectSeq(h[x].contents, LAMBDA y : IsTag(h, y))

\* Tag.find: the first match or None (0).
find(h, x, names) ==
  LET r == find_all(h, x, names) IN IF r = <<>> THEN 0 ELSE r[1]

RECURSIVE concat_text(_, _)
concat_text(h, xs) ==
  IF xs = <<>> THEN <<>>
  ELSE (IF IsTag(h, Head(xs)) THEN <<>> ELSE h[Head(xs)].text)
       \o concat_text(h, Tail(xs))

get_text(h, x) == concat_text(h, descendants(h, x))

\* Tag.string: the single NavigableString under a chain of only children,
\* or None (0).
RECURSIVE string(_, _)
string(h, x) ==
  IF ~IsTag(h, x) THEN x
  ELSE IF Len(h[x].contents) # 1 THEN 0
  ELSE string(h, h[x].contents[1])

RECURSIVE extract_all(_, _)
extract_all(h, xs) ==
  IF xs = <<>> THEN h ELSE extract_all(extract(h, Head(xs)), Tail(xs))

\* Tag.clear(): every child is extracted.
clear(h, x) == extract_all(h, h[x].contents)

\* tag.string = text: clear, then append a new NavigableString.
set_string(h, x, text) ==
  LET g == new_string(clear(h, x), text) IN append(g, x, Len(g))

RECURSIVE wipe(_, _)
wipe(h, xs) ==
  IF xs = <<>> THEN h
  ELSE wipe([h EXCEPT ![Head(xs)] =
               [@ EXCEPT !.name = "", !.attrs = {}, !.contents = <<>>,
                         !.parent = 0, !.text = <<>>, !.dec = TRUE]],
            Tail(xs))

\* Tag.decompose(): extract, then clear the __dict__ of the element and of
\* every descendant (contents = [], no name, no parent).
decompose(h, x) == wipe(extract(h, x), <<x>> \o descendants(h, x))

----------------------------------------------------------------------------
(* str(soup): the serialized tree as a sequence of tokens.                 *)

Open(name, attrs) == [k |-> "open", n |-> name, a |-> attrs]
Close(name) == [k |-> "close", n |-> name, a |-> {}]
Char(c) == [k |-> "char", n |-> c, a |-> {}]

RECURSIVE chars(_)
chars(s) == IF s = <<>> THEN <<>> ELSE <<Char(Head(s))>> \o chars(Tail(s))

RECURSIVE decode(_, _)
RECURSIVE decode_all(_, _)
decode_all(h, xs) ==
  IF xs = <<>> THEN <<>> ELSE decode(h, Head(xs)) \o decode_all(h, Tail(xs))

decode(h, x) ==
  IF ~IsTag(h, x) THEN chars(h[x].text)
  ELSE <<Open(h[x].name, h[x].attrs)>> \o decode_all(h, h[x].contents)
       \o <<Close(h[x].name)>>

str(h) == decode_all(h, h[Soup].contents)

----------------------------------------------------------------------------
(* BeautifulSoup(html, 'html.parser'), line 47: the tree builder.          *)

VoidNames == {"br", "img"}

\* handle_starttag: a new element under the current one.
handle_starttag(h, cur, name, attrs) ==
  LET g == Append(h, Node("tag", name, attrs, <<>>)) IN append(g, cur, Len(g))

\* endData: a run of character data becomes one string; a run that is all
\* whitespace becomes a single space.
end_data(text) == IF strip(text) = <<>> THEN <<" ">> ELSE text

handle_data(h, cur, text) ==
  LET g == new_string(h, end_data(text)) IN append(g, cur, Len(g))

Empty == <<Node("tag", "[document]", {}, <<>>)>>

----------------------------------------------------------------------------
(* The inputs: each alphabet is a small vocabulary of tags (with their     *)
(* attributes) and texts, with its own node budget.                        *)

Alphabets == {"wide", "list", "para", "emph", "table", "generic"}

T(name, attrs) == [name |-> name, attrs |-> attrs]

TagsOf(a) ==
  CASE a = "wide" ->
         {T("h1", {"id"}), T("blockquote", {"cite"}), T("quote", {"cite", "id"}),
          T("table", {"border", "class"}), T("section", {"id"}), T("p", {"class"}),
          T("a", {"href"}), T("br", {}), T("ul", {"class"}), T("li", {"id"}),
          T("tr", {}), T("em", {}), T("ol", {})}
    [] a = "list" -> {T("ul", {}), T("li", {})}
    [] a = "para" -> {T("div", {}), T("em", {})}
    [] a = "emph" -> {T("em", {}), T("strong", {}), T("p", {})}
    [] a = "table" -> {T("table", {}), T("tr", {}), T("td", {}), T("thead", {})}
    [] a = "generic" -> {T("div", {}), T("section", {"id"})}

TextsOf(a) ==
  CASE a = "wide" -> {<<"a">>, <<" ">>}
    [] a = "list" -> {<<"a">>, <<"b">>}
    [] a = "para" -> {<<"a">>}
    [] a = "emph" -> {<<"*", "a", "*">>, <<"*", "*", "a", "*", "*">>,
                      <<"*", "*", "*", "a", "*", "*", "*">>, <<"a", " ", " ", "b">>}
    [] a = "table" -> {}
    [] a = "generic" -> {<<"a", " ", " ", "b">>, <<" ">>}

MaxNodesOf(a) ==
  CASE a = "wide" -> MaxNodesWide
    [] a = "list" -> MaxNodesList
    [] a = "para" -> MaxNodesPara
    [] a = "emph" -> MaxNodesEmph
    [] a = "table" -> MaxNodesTable
    [] a = "generic" -> MaxNodesGeneric

----------------------------------------------------------------------------
(* First pass, lines 49-61: each li of a list becomes a p after the list.  *)

RECURSIVE move_contents(_, _, _)
move_contents(h, t, cs) ==
  IF cs = <<>> THEN h ELSE move_contents(append(h, t, Head(cs)), t, Tail(cs))

RECURSIVE flatten_items(_, _, _)
flatten_items(h, ul, lis) ==
  IF lis = <<>> THEN h
  ELSE LET g == new_tag(h, "p")
           new_p == Len(g)
           m == move_contents(g, new_p, g[Head(lis)].contents)
       IN  flatten_items(insert_after(m, ul, new_p), ul, Tail(lis))

list_items(h, ul) == find_all(h, ul, {"li"})

first_pass_branch(h, ul) ==
  IF h[ul].dec THEN "decomposed"
  ELSE IF list_items(h, ul) = <<>> THEN "empty"
  ELSE "items"

first_pass_raises(h, ul) == list_items(h, ul) # <<>> /\ insert_after_raises(h, ul)

first_pass(h, ul) == decompose(flatten_items(h, ul, list_items(h, ul)), ul)

----------------------------------------------------------------------------
(* Second pass, lines 63-85: keep, rename or replace every element.        *)

keep_attrs(h, tag) == [h EXCEPT ![tag].attrs = @ \cap ALLOWED_TAGS(h[tag].name)]

\* Mutant: the renamed element keeps its attributes.
replace_mapped_keeps_attrs(h, tag) ==
  [h EXCEPT ![tag].name = TAG_REPLACEMENTS(h[tag].name)]

replace_mapped(h, tag) ==
  [h EXCEPT ![tag].name = TAG_REPLACEMENTS(h[tag].name), ![tag].attrs = {}]

replace_generic(h, tag) ==
  LET g == new_tag(h, "p")
      replacement == Len(g)
      text_content == get_text(g, tag)
      f == IF strip(text_content) # <<>>
           THEN set_string(g, replacement, text_content) ELSE g
  IN  replace_with(f, tag, replacement)

second_pass_branch(h, tag) ==
  IF h[tag].name \in ALLOWED_NAMES THEN "keep"
  ELSE IF h[tag].name \in REPLACED_NAMES THEN "mapped"
  ELSE "generic"

second_pass_raises(h, tag) ==
  second_pass_branch(h, tag) = "generic" /\ replace_with_raises(h, tag)

second_pass(h, tag) ==
  CASE second_pass_branch(h, tag) = "keep" -> keep_attrs(h, tag)
    [] second_pass_branch(h, tag) = "mapped" -> replace_mapped(h, tag)
    [] OTHER -> replace_generic(h, tag)

----------------------------------------------------------------------------
(* Third pass, lines 87-103: clean_nested_paragraphs.                      *)

\* for content in nested_p.contents[:]: nested_p.extract(); element.append(content)
RECURSIVE hoist_contents(_, _, _, _)
hoist_contents(h, element, nested_p, cs) ==
  IF cs = <<>> THEN h
  ELSE hoist_contents(append(extract(h, nested_p), element, Head(cs)),
                      element, nested_p, Tail(cs))

RECURSIVE hoist_nested(_, _, _)
hoist_nested(h, element, nested_ps) ==
  IF nested_ps = <<>> THEN h
  ELSE hoist_nested(
         hoist_contents(h, element, Head(nested_ps), h[Head(nested_ps)].contents),
         element, Tail(nested_ps))

nested_ps(h, element) == children(h, element, {"p"})

clean_nested_paragraphs(h, element) ==
  IF h[element].name = "p"
  THEN hoist_nested(h, element, nested_ps(h, element))
  ELSE h

----------------------------------------------------------------------------
(* Fourth pass, lines 105-117: markers left inside the wrong inline tag.   *)

Star == <<"*">>
StarStar == <<"*", "*">>

\* `if tag.string:` a NavigableString that is not empty.
truthy_string(h, tag) == string(h, tag) # 0 /\ h[string(h, tag)].text # <<>>

fourth_pass_branch(h, tag) ==
  IF ~truthy_string(h, tag) THEN "none"
  ELSE LET text == h[string(h, tag)].text IN
       IF h[tag].name = "em" /\ startswith(text, StarStar) /\ endswith(text, StarStar)
       THEN "strong"
       ELSE IF /\ h[tag].name = "strong"
               /\ startswith(text, Star) /\ endswith(text, Star)
               /\ ~startswith(text, StarStar)
       THEN "em"
       ELSE "none"

fourth_pass(h, tag) ==
  LET b == fourth_pass_branch(h, tag) IN
  IF b = "none" THEN h
  ELSE LET text == h[string(h, tag)].text
           g == [h EXCEPT ![tag].name = b]
       IN  set_string(g, tag, slice(text, IF b = "strong" THEN 2 ELSE 1))

----------------------------------------------------------------------------
(* Fifth pass, lines 119-126: prune empty paragraphs, collapse whitespace. *)

\* Mutant: `if not p_tag.contents` in place of the text test.
is_empty_p_no_contents(h, p_tag) == h[p_tag].contents = <<>>

is_empty_p(h, p_tag) == strip(get_text(h, p_tag)) = <<>>

fifth_pass_branch(h, p_tag) ==
  IF is_empty_p(h, p_tag) THEN "decompose"
  ELSE IF truthy_string(h, p_tag) THEN "normalize"
  ELSE "none"

fifth_pass(h, p_tag) ==
  CASE fifth_pass_branch(h, p_tag) = "decompose" -> decompose(h, p_tag)
    [] fifth_pass_branch(h, p_tag) = "normalize" ->
         set_string(h, p_tag, join_split(h[string(h, p_tag)].text))
    [] OTHER -> h

----------------------------------------------------------------------------
(* Sixth pass, lines 128-150: thead and tbody for tables without them.     *)

RECURSIVE rename_all(_, _, _)
rename_all(h, xs, name) ==
  IF xs = <<>> THEN h
  ELSE rename_all([h EXCEPT ![Head(xs)].name = name], Tail(xs), name)

RECURSIVE append_all(_, _, _)
append_all(h, t, xs) ==
  IF xs = <<>> THEN h ELSE append_all(append(h, t, Head(xs)), t, Tail(xs))

\* Mutant: `or` in place of `and` on line 131.
lacks_sections_or(h, table) ==
  find(h, table, {"thead"}) = 0 \/ find(h, table, {"tbody"}) = 0

\* line 131: `not table.find('thead') and not table.find('tbody')`
lacks_sections(h, table) ==
  find(h, table, {"thead"}) = 0 /\ find(h, table, {"tbody"}) = 0

\* Mutant: line 134's test left out.
has_rows_unchecked(rows) == TRUE

\* line 134: `if rows:`
has_rows(rows) == rows # <<>>

wrap_remaining(h, table) ==
  LET remaining_rows == find_all(h, table, {"tr"}) IN
  IF remaining_rows = <<>> THEN h
  ELSE LET g == new_tag(h, "tbody")
           tbody == Len(g)
       IN  append(append_all(g, tbody, remaining_rows), table, tbody)

wrap_first(h, table, first_row) ==
  LET g == rename_all(h, find_all(h, first_row, {"td"}), "th")
      f == new_tag(g, "thead")
      thead == Len(f)
  IN  insert(append(f, thead, first_row), table, 0, thead)

sixth_pass_branch(h, table) ==
  IF ~lacks_sections(h, table) THEN "sections"
  ELSE IF ~has_rows(find_all(h, table, {"tr"})) THEN "norows"
  ELSE "wrap"

\* rows[0] on an empty list raises IndexError.
sixth_pass_raises(h, table) ==
  sixth_pass_branch(h, table) = "wrap" /\ find_all(h, table, {"tr"}) = <<>>

sixth_pass(h, table) ==
  IF sixth_pass_branch(h, table) # "wrap" THEN h
  ELSE wrap_remaining(wrap_first(h, table, find_all(h, table, {"tr"})[1]), table)

----------------------------------------------------------------------------
(* A second call on the first call's output: filter_html(filter_html(t)).  *)

RECURSIVE data_run(_)
data_run(toks) ==
  IF toks = <<>> \/ Head(toks).k # "char" THEN <<>>
  ELSE <<Head(toks).n>> \o data_run(Tail(toks))

RECURSIVE feed(_, _, _)
feed(h, open, toks) ==
  IF toks = <<>> THEN h
  ELSE LET t == Head(toks)
           cur == open[Len(open)]
       IN  CASE t.k = "open" ->
                  feed(handle_starttag(h, cur, t.n, t.a),
                       IF t.n \in VoidNames THEN open ELSE Append(open, Len(h) + 1),
                       Tail(toks))
             [] t.k = "close" ->
                  feed(h, SubSeq(open, 1, Len(open) - 1), Tail(toks))
             [] OTHER ->
                  LET d == data_run(toks) IN
                  feed(handle_data(h, cur, d), open,
                       SubSeq(toks, Len(d) + 1, Len(toks)))

BeautifulSoup(html) == feed(Empty, <<Soup>>, html)

----------------------------------------------------------------------------
(* filter_html as one call, lines 45-152, and md_to_filtered_html, lines   *)
(* 155-165.  Raised stands for the tree of a call that an exception left.  *)

Raised == <<>>

RECURSIVE first_loop(_, _)
first_loop(h, uls) ==
  IF h = Raised \/ uls = <<>> THEN h
  ELSE IF first_pass_raises(h, Head(uls)) THEN Raised
  ELSE first_loop(first_pass(h, Head(uls)), Tail(uls))

RECURSIVE second_loop(_, _)
second_loop(h, tags) ==
  IF h = Raised \/ tags = <<>> THEN h
  ELSE IF second_pass_raises(h, Head(tags)) THEN Raised
  ELSE second_loop(second_pass(h, Head(tags)), Tail(tags))

RECURSIVE third_loop(_, _)
third_loop(h, calls) ==
  IF h = Raised \/ calls = <<>> THEN h
  ELSE LET g == clean_nested_paragraphs(h, Head(calls))
       IN  third_loop(g, children_tags(g, Head(calls)) \o Tail(calls))

RECURSIVE fourth_loop(_, _)
fourth_loop(h, tags) ==
  IF h = Raised \/ tags = <<>> THEN h
  ELSE fourth_loop(fourth_pass(h, Head(tags)), Tail(tags))

RECURSIVE fifth_loop(_, _)
fifth_loop(h, ps) ==
  IF h = Raised \/ ps = <<>> THEN h
  ELSE fifth_loop(fifth_pass(h, Head(ps)), Tail(ps))

RECURSIVE sixth_loop(_, _)
sixth_loop(h, tables) ==
  IF h = Raised \/ tables = <<>> THEN h
  ELSE IF sixth_pass_raises(h, Head(tables)) THEN Raised
  ELSE sixth_loop(sixth_pass(h, Head(tables)), Tail(tables))

\* The tree filter_html serializes on line 152, or Raised.
filter_html(html) ==
  LET soup == BeautifulSoup(html)
      h1 == first_loop(soup, find_all(soup, Soup, {"ul", "ol"}))
      h2 == IF h1 = Raised THEN Raised ELSE second_loop(h1, find_all_tags(h1, Soup))
      h3 == third_loop(h2, <<Soup>>)
      h4 == IF h3 = Raised THEN Raised
            ELSE fourth_loop(h3, find_all(h3, Soup, {"em", "strong"}))
      h5 == IF h4 = Raised THEN Raised ELSE fifth_loop(h4, find_all(h4, Soup, {"p"}))
  IN  IF h5 = Raised THEN Raised ELSE sixth_loop(h5, find_all(h5, Soup, {"table"}))

\* Backslash escapes: the backslash goes, the escaped character stays.
unescape(s) == SelectSeq(s, LAMBDA c : c # "\\")

\* markdown.markdown on the documents of the model: nothing, one list item
\* ("- item"), or one paragraph of text.  The line break between the tags
\* of the list is written as a space.
markdown(md_text) ==
  IF md_text = <<>> THEN <<>>
  ELSE IF startswith(md_text, <<"-", " ">>)
  THEN <<Open("ul", {}), Char(" "), Open("li", {})>>
       \o chars(unescape(SubSeq(md_text, 3, Len(md_text))))
       \o <<Close("li"), Char(" "), Close("ul")>>
  ELSE <<Open("p", {})>> \o chars(unescape(md_text)) \o <<Close("p")>>

\* The returned string, or that the call raised.
md_to_filtered_html(md_text) ==
  LET soup == filter_html(markdown(strip(md_text)))
  IN  IF soup = Raised THEN [raised |-> TRUE, html |-> <<>>]
      ELSE [raised |-> FALSE, html |-> str(soup)]

----------------------------------------------------------------------------
(* src/utf8_sanitizer.py: files, the encoding fallback, the sanitization.  *)

\* A file: its text, and the first of the encodings tried that decodes it.
File(enc, text) == [exists |-> TRUE, enc |-> enc, text |-> text]

Absent == [exists |-> FALSE, enc |-> "", text |-> <<>>]

\* lines 55-73: the text and the encoding that read it.
read_file_with_encoding_fallback(f) == [content |-> f.text, encoding |-> f.enc]

\* lines 10-52 on one character: the asterisk is removed; of the characters
\* the function replaces it is the only one in the texts of the model.
sanitize_token(t) == IF t = Char("*") THEN <<>> ELSE <<t>>

RECURSIVE sanitize_all(_)
sanitize_all(content) ==
  IF content = <<>> THEN <<>>
  ELSE sanitize_token(Head(content)) \o sanitize_all(Tail(content))

force_utf8_and_sanitize(content, is_html) ==
  IF is_html THEN sanitize_all(content) ELSE content

\* line 88: the extensions force_utf8_entire_directory skips.
BinaryExtensions == {"png", "jpg", "jpeg", "gif", "bmp", "zip", "mp4", "pdf"}

\* line 96
HtmlExtensions == {"html", "htm"}

----------------------------------------------------------------------------
(* src/file_processor.py: batch_convert_directory and process_single_file. *)

Stems == 1..MaxFiles

Name(stem, ext) == [stem |-> stem, ext |-> ext]

\* line 67: md_file.stem + '.html'
output_filename(stem) == Name(stem, "html")

\* The names in the output directory: the outputs, a text file, an image.
OutNames == {output_filename(i) : i \in Stems} \cup {Name(0, "txt"), Name(0, "png")}

\* The .md file of a stem, when the input directory holds it: a list item
\* in UTF-8, or a paragraph with an escaped asterisk in cp1252.
MdFile(stem) ==
  IF stem % 2 = 1 THEN File("utf-8", <<"-", " ", "a">>)
  ELSE File("cp1252", <<" ", "\\", "*", "a">>)

\* The files an output directory holds before the batch: the output of an
\* earlier conversion of the first stem, a text file and an image.
OldNames == {output_filename(1), Name(0, "txt"), Name(0, "png")}

OldFile(name) ==
  IF name \notin OldNames THEN Absent
  ELSE IF name.ext = "html" THEN File("cp1252", <<Char("o"), Char("*")>>)
  ELSE File("utf-8", <<Char("*")>>)

Perms(S) ==
  {f \in [1..Cardinality(S) -> S] : \A i, j \in 1..Cardinality(S) : f[i] = f[j] => i = j}

\* The order in which os.walk lists the files of the output directory.
listing(dir) ==
  SelectSeq(<<Name(0, "png"), Name(0, "txt")>> \o [i \in Stems |-> output_filename(i)],
            LAMBDA n : dir[n].exists)

\* The batch variables while filter_html is called on its own.
NoBatch ==
  /\ input_dir = "missing"
  /\ output_dir = "missing"
  /\ inputs = [i \in Stems |-> Absent]
  /\ outdir = [n \in OutNames |-> Absent]
  /\ md_files = <<>>
  /\ index = 0
  /\ successful = 0
  /\ failed = 0
  /\ md_content = <<>>
  /\ html_content = <<>>
  /\ bpc = "none"
  /\ walk = <<>>
  /\ processed_files = 0
  /\ attempted = <<>>
  /\ results = <<>>
  /\ out_pre = outdir
  /\ out0 = outdir
  /\ written = {}
  /\ sanitized = FALSE

----------------------------------------------------------------------------
(* The state machine.                                                      *)

NoStep == [pass |-> "none", node |-> 0, branch |-> "none"]

Step(pass, node, branch) == [pass |-> pass, node |-> node, branch |-> branch]

Init ==
  /\ alphabet \in Alphabets
  /\ heap = Empty
  /\ pc = "parse"
  /\ todo = <<>>
  /\ stack = <<Soup>>
  /\ src = Empty
  /\ before = Empty
  /\ last = NoStep
  /\ err = FALSE
  /\ run = 1
  /\ out1 = <<>>
  /\ NoBatch

Cur == stack[Len(stack)]

HandleStartTag ==
  /\ pc = "parse"
  /\ Len(heap) - 1 < MaxNodesOf(alphabet)
  /\ \E t \in TagsOf(alphabet) :
       /\ heap' = handle_starttag(heap, Cur, t.name, t.attrs)
       /\ stack' = IF t.name \in VoidNames THEN stack
                   ELSE Append(stack, Len(heap) + 1)
  /\ UNCHANGED <<pc, todo, alphabet, src, before, last, err, run, out1, batch>>

HandleData ==
  /\ pc = "parse"
  /\ Len(heap) - 1 < MaxNodesOf(alphabet)
  /\ IF heap[Cur].contents = <<>> THEN TRUE
     ELSE IsTag(heap, heap[Cur].contents[Len(heap[Cur].contents)])
  /\ \E s \in TextsOf(alphabet) : heap' = handle_data(heap, Cur, s)
  /\ UNCHANGED <<pc, todo, stack, alphabet, src, before, last, err, run, out1>>
  /\ UNCHANGED batch

HandleEndTag ==
  /\ pc = "parse"
  /\ Len(stack) > 1
  /\ stack' = SubSeq(stack, 1, Len(stack) - 1)
  /\ UNCHANGED <<heap, pc, todo, alphabet, src, before, last, err, run, out1>>
  /\ UNCHANGED batch

\* End of input: the first pass starts on soup.find_all(['ul', 'ol']).
Parsed ==
  /\ pc = "parse"
  /\ pc' = "p1"
  /\ stack' = <<>>
  /\ src' = heap
  /\ todo' = find_all(heap, Soup, {"ul", "ol"})
  /\ UNCHANGED <<heap, alphabet, before, last, err, run, out1, batch>>

Raise ==
  /\ err' = TRUE
  /\ pc' = "raised"
  /\ UNCHANGED <<heap, todo, before, last>>

FirstPass ==
  /\ pc = "p1"
  /\ todo # <<>>
  /\ LET ul == Head(todo) IN
       IF first_pass_raises(heap, ul) THEN Raise
       ELSE /\ heap' = first_pass(heap, ul)
            /\ todo' = Tail(todo)
            /\ before' = heap
            /\ last' = Step("p1", ul, first_pass_branch(heap, ul))
            /\ UNCHANGED <<pc, err>>
  /\ UNCHANGED <<stack, alphabet, src, run, out1, batch>>

FirstPassDone ==
  /\ pc = "p1"
  /\ todo = <<>>
  /\ pc' = "p2"
  /\ todo' = find_all_tags(heap, Soup)
  /\ UNCHANGED <<heap, stack, alphabet, src, before, last, err, run, out1>>
  /\ UNCHANGED batch

SecondPass ==
  /\ pc = "p2"
  /\ todo # <<>>
  /\ LET tag == Head(todo) IN
       IF second_pass_raises(heap, tag) THEN Raise
       ELSE /\ heap' = second_pass(heap, tag)
            /\ todo' = Tail(todo)
            /\ before' = heap
            /\ last' = Step("p2", tag, second_pass_branch(heap, tag))
            /\ UNCHANGED <<pc, err>>
  /\ UNCHANGED <<stack, alphabet, src, run, out1, batch>>

\* clean_nested_paragraphs(soup): todo is the stack of pending calls.
SecondPassDone ==
  /\ pc = "p2"
  /\ todo = <<>>
  /\ pc' = "p3"
  /\ todo' = <<Soup>>
  /\ UNCHANGED <<heap, stack, alphabet, src, before, last, err, run, out1>>
  /\ UNCHANGED batch

ThirdPass ==
  /\ pc = "p3"
  /\ todo # <<>>
  /\ LET element == Head(todo) IN
       /\ heap' = clean_nested_paragraphs(heap, element)
       /\ todo' = children_tags(heap', element) \o Tail(todo)
       /\ before' = heap
       /\ last' = Step("p3", element,
                       IF heap[element].name = "p" /\ nested_ps(heap, element) # <<>>
                       THEN "nested" ELSE "none")
  /\ UNCHANGED <<pc, stack, alphabet, src, err, run, out1, batch>>

ThirdPassDone ==
  /\ pc = "p3"
  /\ todo = <<>>
  /\ pc' = "p4"
  /\ todo' = find_all(heap, Soup, {"em", "strong"})
  /\ UNCHANGED <<heap, stack, alphabet, src, before, last, err, run, out1>>
  /\ UNCHANGED batch

FourthPass ==
  /\ pc = "p4"
  /\ todo # <<>>
  /\ LET tag == Head(todo) IN
       /\ heap' = fourth_pass(heap, tag)
       /\ todo' = Tail(todo)
       /\ before' = heap
       /\ last' = Step("p4", tag, fourth_pass_branch(heap, tag))
  /\ UNCHANGED <<pc, stack, alphabet, src, err, run, out1, batch>>

FourthPassDone ==
  /\ pc = "p4"
  /\ todo = <<>>
  /\ pc' = "p5"
  /\ todo' = find_all(heap, Soup, {"p"})
  /\ UNCHANGED <<heap, stack, alphabet, src, before, last, err, run, out1>>
  /\ UNCHANGED batch

FifthPass ==
  /\ pc = "p5"
  /\ todo # <<>>
  /\ LET p_tag == Head(todo) IN
       /\ heap' = fifth_pass(heap, p_tag)
       /\ todo' = Tail(todo)
       /\ before' = heap
       /\ last' = Step("p5", p_tag, fifth_pass_branch(heap, p_tag))
  /\ UNCHANGED <<pc, stack, alphabet, src, err, run, out1, batch>>

FifthPassDone ==
  /\ pc = "p5"
  /\ todo = <<>>
  /\ pc' = "p6"
  /\ todo' = find_all(heap, Soup, {"table"})
  /\ UNCHANGED <<heap, stack, alphabet, src, before, last, err, run, out1>>
  /\ UNCHANGED batch

SixthPass ==
  /\ pc = "p6"
  /\ todo # <<>>
  /\ LET table == Head(todo) IN
       IF sixth_pass_raises(heap, table) THEN Raise
       ELSE /\ heap' = sixth_pass(heap, table)
            /\ todo' = Tail(todo)
            /\ before' = heap
            /\ last' = Step("p6", table, sixth_pass_branch(heap, table))
            /\ UNCHANGED <<pc, err>>
  /\ UNCHANGED <<stack, alphabet, src, run, out1, batch>>

\* return str(soup)
SixthPassDone ==
  /\ pc = "p6"
  /\ todo = <<>>
  /\ pc' = "done"
  /\ UNCHANGED <<heap, todo, stack, alphabet, src, before, last, err, run, out1>>
  /\ UNCHANGED batch

\* The caller passes the returned string to filter_html again.
Again ==
  /\ pc = "done"
  /\ run = 1
  /\ run' = 2
  /\ out1' = str(heap)
  /\ heap' = BeautifulSoup(str(heap))
  /\ src' = heap'
  /\ pc' = "p1"
  /\ todo' = find_all(heap', Soup, {"ul", "ol"})
  /\ before' = Empty
  /\ last' = NoStep
  /\ UNCHANGED <<stack, alphabet, err, batch>>

Next ==
  \/ HandleStartTag
  \/ HandleData
  \/ HandleEndTag
  \/ Parsed
  \/ FirstPass
  \/ FirstPassDone
  \/ SecondPass
  \/ SecondPassDone
  \/ ThirdPass
  \/ ThirdPassDone
  \/ FourthPass
  \/ FourthPassDone
  \/ FifthPass
  \/ FifthPassDone
  \/ SixthPass
  \/ SixthPassDone

Spec == Init /\ [][Next]_vars

\* The same machine with the second call.
SpecTwice == Init /\ [][Next \/ Again]_vars

----------------------------------------------------------------------------
(* The batch: batch_convert_directory(input_dir, output_dir).              *)

InitBatch ==
  /\ heap = Empty
  /\ pc = "idle"
  /\ todo = <<>>
  /\ stack = <<>>
  /\ alphabet = "none"
  /\ src = Empty
  /\ before = Empty
  /\ last = NoStep
  /\ err = FALSE
  /\ run = 1
  /\ out1 = <<>>
  /\ input_dir \in {"missing", "file", "dir"}
  /\ output_dir \in {"missing", "file", "dir"}
  /\ \E present \in SUBSET Stems :
       inputs = [i \in Stems |-> IF i \in present THEN MdFile(i) ELSE Absent]
  /\ input_dir # "dir" => inputs = [i \in Stems |-> Absent]
  /\ outdir \in {[n \in OutNames |-> Absent], [n \in OutNames |-> OldFile(n)]}
  /\ output_dir # "dir" => outdir = [n \in OutNames |-> Absent]
  /\ md_files = <<>>
  /\ index = 0
  /\ successful = 0
  /\ failed = 0
  /\ md_content = <<>>
  /\ html_content = <<>>
  /\ bpc = "start"
  /\ walk = <<>>
  /\ processed_files = 0
  /\ attempted = <<>>
  /\ results = <<>>
  /\ out_pre = outdir
  /\ out0 = outdir
  /\ written = {}
  /\ sanitized = FALSE

\* lines 38-48: the input path must be an existing directory.
Validate ==
  /\ bpc = "start"
  /\ bpc' = IF input_dir = "dir" THEN "mkdir" ELSE "returned"
  /\ UNCHANGED <<input_dir, output_dir, inputs, outdir, md_files, index,
                 successful, failed, md_content, html_content, walk,
                 processed_files, attempted, results, out_pre, out0, written,
                 sanitized>>
  /\ UNCHANGED filter

\* line 51: mkdir(parents=True, exist_ok=True) raises FileExistsError when the
\* path is a file.
MakeOutputDir ==
  /\ bpc = "mkdir"
  /\ IF output_dir = "file"
     THEN bpc' = "raised" /\ UNCHANGED output_dir
     ELSE bpc' = "glob" /\ output_dir' = "dir"
  /\ UNCHANGED <<input_dir, inputs, outdir, md_files, index, successful, failed,
                 md_content, html_content, walk, processed_files, attempted,
                 results, out_pre, out0, written, sanitized>>
  /\ UNCHANGED filter

\* lines 54-64: the .md files in the order glob yields them.
Glob ==
  /\ bpc = "glob"
  /\ \E files \in Perms({i \in Stems : inputs[i].exists}) :
       /\ md_files' = files
       /\ bpc' = IF files = <<>> THEN "returned" ELSE "loop"
  /\ index' = 1
  /\ successful' = 0
  /\ failed' = 0
  /\ UNCHANGED <<input_dir, output_dir, inputs, outdir, md_content,
                 html_content, walk, processed_files, attempted, results, out_pre,
                 out0, written, sanitized>>
  /\ UNCHANGED filter

\* lines 66-72: the next file is passed to process_single_file.
Attempt ==
  /\ bpc = "loop"
  /\ index <= Len(md_files)
  /\ attempted' = Append(attempted, md_files[index])
  /\ out_pre' = outdir
  /\ bpc' = "read"
  /\ UNCHANGED <<input_dir, output_dir, inputs, outdir, md_files, index,
                 successful, failed, md_content, html_content, walk,
                 processed_files, results, out0, written, sanitized>>
  /\ UNCHANGED filter

\* A step of process_single_file is done and the next one follows.
Continue(next) ==
  /\ bpc' = next
  /\ UNCHANGED <<index, successful, failed, results>>

\* lines 31-33 and 72-79: process_single_file returns, the loop counts.
Return(success, step) ==
  /\ results' = Append(results, [file |-> md_files[index], success |-> success,
                                  step |-> step])
  /\ successful' = IF success THEN successful + 1 ELSE successful
  /\ failed' = IF success THEN failed ELSE failed + 1
  /\ index' = index + 1
  /\ bpc' = "loop"

\* lines 15-31: the steps inside the try block.
TrySteps == {"read", "convert", "open", "write"}

\* Mutant: the output is written after the try block.
caught_before_output(step) == step \in {"read", "convert"}

\* line 32: `except Exception` around every step.
caught(step) == step \in TrySteps

\* A step of process_single_file raises.
Fail(step) ==
  IF caught(step) THEN Return(FALSE, step)
  ELSE /\ bpc' = "raised"
       /\ UNCHANGED <<index, successful, failed, results>>

\* line 17
ReadInput ==
  /\ bpc = "read"
  /\ \E ok \in BOOLEAN :
       IF ok
       THEN /\ md_content' =
                 read_file_with_encoding_fallback(inputs[md_files[index]]).content
            /\ Continue("convert")
       ELSE /\ UNCHANGED md_content
            /\ Fail("read")
  /\ UNCHANGED <<input_dir, output_dir, inputs, outdir, md_files, html_content,
                 walk, processed_files, attempted, out_pre, out0, written, sanitized>>
  /\ UNCHANGED filter

\* line 22: markdown.markdown may raise; filter_html's exceptions pass through.
ConvertInput ==
  /\ bpc = "convert"
  /\ \E ok \in BOOLEAN :
       IF ok /\ ~md_to_filtered_html(md_content).raised
       THEN /\ html_content' = md_to_filtered_html(md_content).html
            /\ Continue("sanitize")
       ELSE /\ UNCHANGED html_content
            /\ Fail("convert")
  /\ UNCHANGED <<input_dir, output_dir, inputs, outdir, md_files, md_content,
                 walk, processed_files, attempted, out_pre, out0, written, sanitized>>
  /\ UNCHANGED filter

\* line 25
SanitizeOutput ==
  /\ bpc = "sanitize"
  /\ html_content' = force_utf8_and_sanitize(html_content, TRUE)
  /\ Continue("open")
  /\ UNCHANGED <<input_dir, output_dir, inputs, outdir, md_files, md_content,
                 walk, processed_files, attempted, out_pre, out0, written, sanitized>>
  /\ UNCHANGED filter

\* line 28: codecs.open(output_path, 'w') creates the file or truncates it.
OpenOutput ==
  /\ bpc = "open"
  /\ \E ok \in BOOLEAN :
       IF ok
       THEN /\ outdir' = [outdir EXCEPT ![output_filename(md_files[index])] =
                            File("utf-8", <<>>)]
            /\ written' = written \cup {output_filename(md_files[index])}
            /\ Continue("write")
       ELSE /\ UNCHANGED <<outdir, written>>
            /\ Fail("open")
  /\ UNCHANGED <<input_dir, output_dir, inputs, md_files, md_content,
                 html_content, walk, processed_files, attempted, out_pre, out0,
                 sanitized>>
  /\ UNCHANGED filter

\* lines 29-31: f.write writes all of the content, or raises after a part.
WriteOutput ==
  /\ bpc = "write"
  /\ \E n \in 0..Len(html_content) :
       /\ outdir' = [outdir EXCEPT ![output_filename(md_files[index])].text =
                       SubSeq(html_content, 1, n)]
       /\ IF n = Len(html_content) THEN Return(TRUE, "write") ELSE Fail("write")
  /\ UNCHANGED <<input_dir, output_dir, inputs, md_files, md_content,
                 html_content, walk, processed_files, attempted, out_pre, out0,
                 written, sanitized>>
  /\ UNCHANGED filter

\* line 86: `if successful > 0`
any_successful(n) == n > 0

\* lines 81-91: after the loop, the output directory is sanitized.
Report ==
  /\ bpc = "loop"
  /\ index > Len(md_files)
  /\ IF any_successful(successful)
     THEN /\ bpc' = "walk"
          /\ walk' = listing(outdir)
          /\ sanitized' = TRUE
     ELSE /\ bpc' = "returned"
          /\ UNCHANGED <<walk, sanitized>>
  /\ processed_files' = 0
  /\ UNCHANGED <<input_dir, output_dir, inputs, outdir, md_files, index,
                 successful, failed, md_content, html_content, attempted,
                 results, out_pre, out0, written>>
  /\ UNCHANGED filter

\* src/utf8_sanitizer.py lines 84-106: one file of force_utf8_entire_directory;
\* a failure to read, open or write is a warning.
WalkFile ==
  /\ bpc = "walk"
  /\ walk # <<>>
  /\ LET file_name == Head(walk)
         content == read_file_with_encoding_fallback(outdir[file_name]).content
         clean == force_utf8_and_sanitize(content, file_name.ext \in HtmlExtensions)
     IN  IF file_name.ext \in BinaryExtensions
         THEN UNCHANGED <<outdir, written, processed_files>>
         ELSE \E step \in {"read", "open", "write", "done"} :
                IF step \in {"read", "open"}
                THEN UNCHANGED <<outdir, written, processed_files>>
                ELSE /\ written' = written \cup {file_name}
                     /\ IF step = "done"
                        THEN /\ outdir' = [outdir EXCEPT ![file_name] =
                                             File("utf-8", clean)]
                             /\ processed_files' = processed_files + 1
                        ELSE /\ outdir' = [outdir EXCEPT ![file_name] =
                                             File("utf-8", <<>>)]
                             /\ UNCHANGED processed_files
  /\ walk' = Tail(walk)
  /\ UNCHANGED <<input_dir, output_dir, inputs, md_files, index, successful,
                 failed, md_content, html_content, bpc, attempted, results, out_pre,
                 out0, sanitized>>
  /\ UNCHANGED filter

\* src/utf8_sanitizer.py line 108 and src/file_processor.py lines 89-91.
WalkDone ==
  /\ bpc = "walk"
  /\ walk = <<>>
  /\ bpc' = "returned"
  /\ UNCHANGED <<input_dir, output_dir, inputs, outdir, md_files, index,
                 successful, failed, md_content, html_content, walk,
                 processed_files, attempted, results, out_pre, out0, written,
                 sanitized>>
  /\ UNCHANGED filter

NextBatch ==
  \/ Validate
  \/ MakeOutputDir
  \/ Glob
  \/ Attempt
  \/ ReadInput
  \/ ConvertInput
  \/ SanitizeOutput
  \/ OpenOutput
  \/ WriteOutput
  \/ Report
  \/ WalkFile
  \/ WalkDone

SpecBatch == InitBatch /\ [][NextBatch]_vars

----------------------------------------------------------------------------
(* The properties checked.                                                 *)

Range(s) == {s[i] : i \in 1..Len(s)}

\* The elements and the strings of the tree under the BeautifulSoup object.
Elements(h) == Range(find_all_tags(h, Soup))

Strings(h) == {x \in Range(descendants(h, Soup)) : ~IsTag(h, x)}

ApprovedVocabulary ==
  {"h2", "h3", "p", "strong", "em", "quote", "table", "thead", "tbody",
   "tr", "th", "td"}

Whitelist(name) ==
  IF name = "quote" THEN {"cite", "author"}
  ELSE IF name = "table" THEN {"border", "cellpadding", "cellspacing"}
  ELSE {}

ContainsSection(h, table) == find_all(h, table, {"thead", "tbody"}) # <<>>

Tables(h) == Range(find_all(h, Soup, {"table"}))

\* C1. Vocabulary closure: every element of the returned tree has a tag name
\* of the approved vocabulary and only attributes of that tag's whitelist,
\* whichever pass renamed or created it.
VocabularyClosure ==
  pc = "done" =>
    \A x \in Elements(heap) :
      /\ heap[x].name \in ApprovedVocabulary
      /\ heap[x].attrs \subseteq Whitelist(heap[x].name)

\* A returned tree with a table that lost its class attribute and kept its
\* border, and with a thead the sixth pass created.
VocabularyClosureWitness ==
  /\ pc = "done"
  /\ \E x \in Elements(heap), y \in Elements(heap) :
       /\ x <= Len(src)
       /\ src[x].name = "table"
       /\ src[x].attrs = {"border", "class"}
       /\ heap[x].attrs = {"border"}
       /\ y > Len(src)
       /\ heap[y].name = "thead"

\* C2. No nested paragraphs: no p of the returned tree has a p descendant.
NoNestedParagraphs ==
  pc = "done" =>
    \A x \in Elements(heap) :
      heap[x].name = "p" => find_all(heap, x, {"p"}) = <<>>

\* C3. Table shape: after the sixth pass visits a table with rows and no
\* thead/tbody, the table has exactly one thead holding exactly the first
\* row, whose td cells are th, and a tbody exactly when there were two or
\* more rows, holding the other rows in order.
TableShape ==
  (last.pass = "p6" /\ ~ContainsSection(before, last.node)
     /\ find_all(before, last.node, {"tr"}) # <<>>) =>
    LET table == last.node
        rows == find_all(before, table, {"tr"})
        theads == children(heap, table, {"thead"})
        tbodies == children(heap, table, {"tbody"})
    IN  /\ Len(theads) = 1
        /\ heap[theads[1]].contents = <<rows[1]>>
        /\ find_all(heap, rows[1], {"td"}) = <<>>
        /\ Len(tbodies) = (IF Len(rows) >= 2 THEN 1 ELSE 0)
        /\ Len(rows) >= 2 => heap[tbodies[1]].contents = Tail(rows)

\* C4. Idempotence: the second call, on the string the first call returned,
\* returns the same string.
Idempotence == (pc = "done" /\ run = 2) => str(heap) = out1

\* C5. List order: after the first pass visits a list whose items i1..in
\* are its children, n paragraphs stand where the list stood, and the k-th
\* of them holds the contents of the k-th item.
ListOrder ==
  (/\ last.pass = "p1"
   /\ find_all(before, last.node, {"li"}) # <<>>
   /\ find_all(before, last.node, {"li"}) = children(before, last.node, {"li"})) =>
    LET ul == last.node
        lis == find_all(before, ul, {"li"})
        parent == before[ul].parent
        at == IndexOf(before[parent].contents, ul)
    IN  /\ Len(heap[parent].contents) = Len(before[parent].contents) - 1 + Len(lis)
        /\ \A k \in 1..Len(lis) :
             LET new_p == heap[parent].contents[at + k - 1] IN
               /\ heap[new_p].name = "p"
               /\ heap[new_p].contents = before[lis[k]].contents

\* Letters only: whitespace and emphasis markers dropped.
core(s) == SelectSeq(s, LAMBDA c : c \notin {" ", "*"})

IsInfix(a, b) ==
  \E i \in 0..(Len(b) - Len(a)) : SubSeq(b, i + 1, i + Len(a)) = a

\* C6. Text preservation: the text of every string of the input that is not
\* all whitespace is part of the text of the returned tree, up to
\* whitespace and emphasis markers.
TextPreservation ==
  pc = "done" =>
    \A x \in Strings(src) :
      strip(src[x].text) # <<>> =>
        IsInfix(core(src[x].text), core(get_text(heap, Soup)))

not_p(toks) == SelectSeq(toks, LAMBDA t : ~(t.k \in {"open", "close"} /\ t.n = "p"))

leaf_content(h, x) == not_p(decode_all(h, h[x].contents))

\* C8. Paragraph flattening keeps position and order: after the third pass
\* visits a p with a child p, the content of the p reads in the same order
\* as before (the nested p's children stand where the nested p stood).
FlattenKeepsOrder ==
  (last.pass = "p3" /\ before[last.node].name = "p"
     /\ children(before, last.node, {"p"}) # <<>>) =>
    leaf_content(heap, last.node) = leaf_content(before, last.node)

\* C9 as stated. Tables with sections are left alone: an iteration of the
\* sixth pass leaves every table that contains a thead or a tbody with the
\* structure it had.
SectionedTableUnchanged ==
  last.pass = "p6" =>
    \A t \in Tables(before) :
      ContainsSection(before, t) => decode(heap, t) = decode(before, t)

\* The structure of an element with the tables of `hidden` left out.
Hidden == [k |-> "hidden", n |-> "", a |-> {}]

RECURSIVE outline(_, _, _)
RECURSIVE outline_all(_, _, _)
outline_all(h, xs, hidden) ==
  IF xs = <<>> THEN <<>>
  ELSE outline(h, Head(xs), hidden) \o outline_all(h, Tail(xs), hidden)

outline(h, x, hidden) ==
  IF x \in hidden THEN <<Hidden>>
  ELSE IF ~IsTag(h, x) THEN chars(h[x].text)
  ELSE <<Open(h[x].name, h[x].attrs)>> \o outline_all(h, h[x].contents, hidden)
       \o <<Close(h[x].name)>>

Unsectioned(h) == {t \in Tables(h) : ~ContainsSection(h, t)}

\* C9 as amended. The visit of a table that contains a thead or a tbody
\* changes nothing, and an iteration of the sixth pass leaves every such
\* table with the structure it had outside the tables nested in it that
\* contain neither.
SectionedTableUnchangedOutsideNested ==
  last.pass = "p6" =>
    /\ ContainsSection(before, last.node) => heap = before
    /\ \A t \in Tables(before) :
         ContainsSection(before, t) =>
           outline(heap, t, Unsectioned(before)) = outline(before, t, Unsectioned(before))

\* The sixth pass has visited a table that holds a thead and a row outside
\* it, and the table reads as before.
SectionedTableWitness ==
  /\ last.pass = "p6"
  /\ ContainsSection(before, last.node)
  /\ \E r \in Range(find_all(before, last.node, {"tr"})) :
       before[before[r].parent].name = "table"
  /\ decode(heap, last.node) = decode(before, last.node)

\* C10. Totality: no pass raises; the visit of a list without li creates
\* no element (also when the list was removed with an enclosing list), and
\* the visit of a table with no row and no thead/tbody changes nothing.
Totality ==
  /\ ~err
  /\ pc # "raised"
  /\ (last.pass = "p1" /\ find_all(before, last.node, {"li"}) = <<>>) =>
       /\ Len(heap) = Len(before)
       /\ Elements(heap) = Elements(before) \ ({last.node} \cup Range(descendants(before, last.node)))
  /\ (last.pass = "p6" /\ ~ContainsSection(before, last.node)
        /\ find_all(before, last.node, {"tr"}) = <<>>) =>
       heap = before

\* The call returned after the first pass visited a list without li and the
\* sixth pass visited a table without rows.
TotalityWitness ==
  /\ pc = "done"
  /\ \E u \in Elements(src) : src[u].name = "ul" /\ find_all(src, u, {"li"}) = <<>>
  /\ last.pass = "p6"
  /\ ~ContainsSection(before, last.node)
  /\ find_all(before, last.node, {"tr"}) = <<>>

\* The first pass has visited a list that was decomposed with the list
\* around it.
DecomposedListVisited ==
  /\ last.pass = "p1"
  /\ before[last.node].dec
  /\ Len(heap) = Len(before)

\* The process_single_file calls so far that returned success, as indexes.
Succeeded == {i \in 1..Len(results) : results[i].success}

\* C11. Batch failure isolation: the files are passed to process_single_file
\* one by one in the order of md_files, each once, whatever the earlier
\* calls returned; no failure of a file leaves the loop; and when the loop
\* has ended every discovered file has been attempted and successful +
\* failed is the number of discovered files.
BatchIsolation ==
  /\ attempted = SubSeq(md_files, 1, Len(attempted))
  /\ bpc = "raised" => attempted = <<>>
  /\ bpc = "loop" =>
       /\ Len(attempted) = index - 1
       /\ Len(results) = Len(attempted)
       /\ successful + failed = Len(attempted)
  /\ (bpc \in {"walk", "returned"} /\ md_files # <<>>) =>
       /\ attempted = md_files
       /\ \A i \in 1..Len(md_files) : results[i].file = md_files[i]
       /\ successful = Cardinality(Succeeded)
       /\ successful + failed = Len(md_files)

\* The batch returned after the first of two files failed at its output and
\* the second was converted.
BatchIsolationWitness ==
  /\ bpc = "returned"
  /\ Len(md_files) = 2
  /\ ~results[1].success
  /\ results[1].step \in {"open", "write"}
  /\ results[2].success
  /\ successful = 1
  /\ failed = 1

\* C12. No partial output on failure: when process_single_file has returned
\* failure for a document, the file at its output path is as it was before
\* the call: not created, not truncated, not partly written.
NoPartialOutput ==
  (bpc = "loop" /\ results # <<>> /\ ~results[Len(results)].success) =>
    LET output_path == output_filename(results[Len(results)].file)
    IN  outdir[output_path] = out_pre[output_path]

\* The content of an element is exactly one text node.
SingleText(h, x) == Len(h[x].contents) = 1 /\ ~IsTag(h, h[x].contents[1])

\* C13. Emphasis corrector rule: an iteration of the fourth pass changes an
\* em or strong only when its content is exactly one text node: an em whose
\* text starts and ends with ** becomes strong without the two characters
\* at each end, a strong whose text starts and ends with * and does not
\* start with ** becomes em without the character at each end; every other
\* em or strong keeps its tag name and its children.
EmphasisRule ==
  last.pass = "p4" =>
    LET tag == last.node
        name == before[tag].name
    IN  IF SingleText(before, tag)
        THEN LET text == before[before[tag].contents[1]].text IN
             IF name = "em" /\ startswith(text, <<"*", "*">>) /\ endswith(text, <<"*", "*">>)
             THEN /\ heap[tag].name = "strong"
                  /\ SingleText(heap, tag)
                  /\ get_text(heap, tag) = SubSeq(text, 3, Len(text) - 2)
             ELSE IF /\ name = "strong"
                     /\ startswith(text, <<"*">>) /\ endswith(text, <<"*">>)
                     /\ ~startswith(text, <<"*", "*">>)
             THEN /\ heap[tag].name = "em"
                  /\ SingleText(heap, tag)
                  /\ get_text(heap, tag) = SubSeq(text, 2, Len(text) - 1)
             ELSE heap = before
        ELSE /\ heap[tag].name = name
             /\ heap[tag].contents = before[tag].contents

\* The elements of the subtrees of the paragraphs without text.
InEmptyParagraph(h) ==
  UNION {{p} \cup Range(find_all_tags(h, p)) :
           p \in {q \in Elements(h) : h[q].name = "p" /\ strip(get_text(h, q)) = <<>>}}

\* C14. The pruner rewrites the content of a non-empty p only when it is a
\* single text node: after an iteration of the fifth pass on a non-empty p
\* whose only child is an element, the p still holds that element under its
\* tag name, and an iteration removes no element from the tree other than
\* an empty p (with what it holds).
PrunerKeepsElements ==
  last.pass = "p5" =>
    LET p_tag == last.node IN
      /\ (/\ strip(get_text(before, p_tag)) # <<>>
          /\ Len(before[p_tag].contents) = 1
          /\ IsTag(before, before[p_tag].contents[1])) =>
           /\ heap[p_tag].contents = before[p_tag].contents
           /\ heap[heap[p_tag].contents[1]].name = before[before[p_tag].contents[1]].name
      /\ Elements(before) \ Elements(heap) \subseteq InEmptyParagraph(before)

\* The elements the second pass replaces by a paragraph of their text.
Generic(h) ==
  {x \in Elements(h) : h[x].name \notin ApprovedVocabulary \cup REPLACED_NAMES}

\* C15. Replace-generic result: for every element of the input whose tag
\* is neither allowed nor mapped and whose text is not all whitespace, the
\* returned tree holds that text trimmed and with every run of whitespace
\* collapsed to one space, wherever the element sat; of such an element
\* whose text is all whitespace nothing remains in the returned tree.
GenericTextCollapsed ==
  pc = "done" =>
    \A x \in Generic(src) :
      IF strip(get_text(src, x)) # <<>>
      THEN IsInfix(join_split(get_text(src, x)), get_text(heap, Soup))
      ELSE ({x} \cup Range(descendants(src, x))) \cap Range(descendants(heap, Soup)) = {}

\* The li elements of the parsed input that stand under a ul or an ol.
ListItems(h) ==
  UNION {Range(find_all(h, l, {"li"})) : l \in Range(find_all(h, Soup, {"ul", "ol"}))}

\* C16. After the first pass no ul or ol is left in the tree and every li
\* that stood under a list is gone with it; the second pass never renames a
\* ul or an ol, and renames only the li that stood outside every list.
ListsGoneAfterFirstPass ==
  /\ (pc = "p2" /\ last.pass # "p2") =>
       /\ \A x \in Elements(heap) : heap[x].name \notin {"ul", "ol"}
       /\ ListItems(src) \cap Elements(heap) = {}
  /\ (last.pass = "p2" /\ last.branch = "mapped") =>
       /\ before[last.node].name \notin {"ul", "ol"}
       /\ before[last.node].name = "li" => last.node \notin ListItems(src)

\* C17. The directory-wide sanitization starts only after every discovered
\* file has been attempted, and it runs exactly when a file was converted
\* successfully; when the batch returns without a successful conversion
\* (no input directory, no .md file, every conversion failed) it has
\* rewritten no file of the output directory.
SanitizationAfterLoop ==
  /\ sanitized => attempted = md_files
  /\ bpc = "returned" => (sanitized <=> Succeeded # {})
  /\ (bpc = "returned" /\ Succeeded = {}) =>
       /\ written = {}
       /\ outdir = out0

====
